---------------------------- MODULE Spec2Model ----------------------------
(***************************************************************************)
(* The BLE presence registry of main.py: the registry dict `devices`, the  *)
(* storage file devices.json, the wall clock read by int(time.time()),     *)
(* and the Streamlit script that loads the registry, serves the reset and  *)
(* naming widgets and runs scan cycles (scan, mark_seen per device,        *)
(* cleanup_exits, save_devices) once or in the auto-scan loop.             *)
(***************************************************************************)
EXTENDS Integers, Sequences, FiniteSets, TLC

\* ------------------------------------------------------------------ bounds
\* Number of clock advances explored, and number of times one address is
\* passed to mark_seen before the registry is emptied.
MaxTicks == 2
MaxSeen == 2

\* --------------------------------------------------------------- constants
EXIT_TIMEOUT == 30
\* "out_time" key not present in a record (it is set only by cleanup_exits).
NoTime == -1
\* rssi None: getattr(dev, "rssi", None).
NoneRssi == 1

\* Device addresses reported by the scanner; custom names typed by the user.
Addrs == {"AA:BB", "CC:DD"}
CustomNames == {"", "Key"}

\* The clock advances by one second or by EXIT_TIMEOUT seconds, so that
\* silences of exactly EXIT_TIMEOUT and of EXIT_TIMEOUT + 1 seconds occur.
Deltas == {1, EXIT_TIMEOUT}

VARIABLES
    clock,        \* int(time.time())
    file,         \* devices.json: [kind, json]
    devices,      \* the registry dict of the running script
    pc,           \* position of the script
    found,        \* devices of the current cycle not yet passed to mark_seen
    auto_scan,    \* the auto-scan toggle
    inLoop,       \* the script is inside the while True loop
    report,       \* what the last run of lines 93-116 showed, or "exception"
    ticks,        \* number of clock advances so far
    ingests,      \* per address: mark_seen calls since the registry was last emptied
    lastIngestAt, \* per address: clock value read by the last mark_seen
    touched       \* addresses passed to mark_seen in the cycle under way

vars == <<clock, file, devices, pc, found, auto_scan, inLoop, report,
          ticks, ingests, lastIngestAt, touched>>

\* ------------------------------------------------------------ JSON values
EmptyRegistry == [a \in {} |-> 0]
\* A JSON object holding a registry, and a JSON document that parses but is
\* not an object (a list, a number, null, ...).
JsonObject(reg) == [type |-> "object", members |-> reg]
JsonOther == [type |-> "other", members |-> EmptyRegistry]

\* Storage states: no file, a file that cannot be opened or read, a file
\* whose text is not JSON, and a file holding a JSON document.
FileMissing == [kind |-> "missing", json |-> JsonObject(EmptyRegistry)]
FileUnreadable == [kind |-> "unreadable", json |-> JsonObject(EmptyRegistry)]
FileGarbage == [kind |-> "garbage", json |-> JsonObject(EmptyRegistry)]
FileJson(j) == [kind |-> "json", json |-> j]

\* load_devices(): {} when the file does not exist or when open/json.load
\* raises; otherwise whatever json.load returns.
load_devices(f) ==
    IF f.kind = "missing" THEN JsonObject(EmptyRegistry)
    ELSE IF f.kind \in {"unreadable", "garbage"} THEN JsonObject(EmptyRegistry)
    ELSE f.json

\* save_devices(devices): the file is overwritten with json.dump(devices).
save_devices(reg) == FileJson(JsonObject(reg))

\* make_tag(addr): "TAG-" + first 8 hex digits of sha1(addr), upper-cased.
make_tag(addr) ==
    CASE addr = "AA:BB" -> "TAG-27DE5F57"
      [] addr = "CC:DD" -> "TAG-469D6C7E"

\* ---------------------------------------------------------------- registry
\* The record mark_seen creates for an address it has not seen.
NewRecord(addr, name, rssi, now) ==
    [tag |-> make_tag(addr),
     address |-> addr,
     ble_name |-> IF name # "" THEN name ELSE "-",
     custom_name |-> "",
     rssi |-> rssi,
     first_seen |-> now,
     last_seen |-> now,
     status |-> "IN",
     seen_count |-> 1,
     out_time |-> NoTime]

\* mark_seen with a new record that starts its count at 0.
mark_seen_CountFromZero(reg, addr, name, rssi, now) ==
    IF addr \in DOMAIN reg
    THEN [reg EXCEPT ![addr] =
            [@ EXCEPT !.last_seen = now, !.rssi = rssi, !.status = "IN",
                      !.seen_count = @ + 1,
                      !.ble_name = IF name # "" THEN name ELSE @]]
    ELSE [a \in DOMAIN reg \cup {addr} |->
            IF a = addr
            THEN [NewRecord(addr, name, rssi, now) EXCEPT !.seen_count = 0]
            ELSE reg[a]]

\* mark_seen that counts a sighting only while the record is IN.
mark_seen_CountOnlyWhenIn(reg, addr, name, rssi, now) ==
    IF addr \in DOMAIN reg
    THEN [reg EXCEPT ![addr] =
            [@ EXCEPT !.last_seen = now, !.rssi = rssi, !.status = "IN",
                      !.seen_count = IF reg[addr].status = "IN" THEN @ + 1 ELSE @,
                      !.ble_name = IF name # "" THEN name ELSE @]]
    ELSE [a \in DOMAIN reg \cup {addr} |->
            IF a = addr THEN NewRecord(addr, name, rssi, now) ELSE reg[a]]

\* mark_seen without line 44 (the status is left as it was).
mark_seen_KeepStatus(reg, addr, name, rssi, now) ==
    IF addr \in DOMAIN reg
    THEN [reg EXCEPT ![addr] =
            [@ EXCEPT !.last_seen = now, !.rssi = rssi,
                      !.seen_count = @ + 1,
                      !.ble_name = IF name # "" THEN name ELSE @]]
    ELSE [a \in DOMAIN reg \cup {addr} |->
            IF a = addr THEN NewRecord(addr, name, rssi, now) ELSE reg[a]]

\* mark_seen that rebuilds the record of a known address that was OUT.
mark_seen_RebuildAfterOut(reg, addr, name, rssi, now) ==
    IF addr \in DOMAIN reg /\ reg[addr].status = "IN"
    THEN [reg EXCEPT ![addr] =
            [@ EXCEPT !.last_seen = now, !.rssi = rssi, !.status = "IN",
                      !.seen_count = @ + 1,
                      !.ble_name = IF name # "" THEN name ELSE @]]
    ELSE [a \in DOMAIN reg \cup {addr} |->
            IF a = addr
            THEN [NewRecord(addr, name, rssi, now) EXCEPT
                    !.seen_count = IF addr \in DOMAIN reg
                                   THEN reg[addr].seen_count + 1 ELSE 1]
            ELSE reg[a]]

\* mark_seen that writes the time read into first_seen of a known record.
mark_seen_StampsFirstSeen(reg, addr, name, rssi, now) ==
    IF addr \in DOMAIN reg
    THEN [reg EXCEPT ![addr] =
            [@ EXCEPT !.first_seen = now, !.rssi = rssi, !.status = "IN",
                      !.seen_count = @ + 1,
                      !.ble_name = IF name # "" THEN name ELSE @]]
    ELSE [a \in DOMAIN reg \cup {addr} |->
            IF a = addr THEN NewRecord(addr, name, rssi, now) ELSE reg[a]]

\* mark_seen(devices, addr, name, rssi) with now = int(time.time()).
mark_seen(reg, addr, name, rssi, now) ==
    IF addr \in DOMAIN reg
    THEN [reg EXCEPT ![addr] =
            [@ EXCEPT !.last_seen = now,
                      !.rssi = rssi,
                      !.status = "IN",
                      !.seen_count = @ + 1,
                      !.ble_name = IF name # "" THEN name ELSE @]]
    ELSE [a \in DOMAIN reg \cup {addr} |->
            IF a = addr THEN NewRecord(addr, name, rssi, now) ELSE reg[a]]

\* cleanup_exits with >= in place of >.
cleanup_exits_AtThreshold(reg, now) ==
    [a \in DOMAIN reg |->
        IF reg[a].status = "IN" /\ now - reg[a].last_seen >= EXIT_TIMEOUT
        THEN [reg[a] EXCEPT !.status = "OUT", !.out_time = now]
        ELSE reg[a]]

\* cleanup_exits without the status test.
cleanup_exits_Restamp(reg, now) ==
    [a \in DOMAIN reg |->
        IF now - reg[a].last_seen > EXIT_TIMEOUT
        THEN [reg[a] EXCEPT !.status = "OUT", !.out_time = now]
        ELSE reg[a]]

\* cleanup_exits measuring the silence from first_seen.
cleanup_exits_FromFirstSeen(reg, now) ==
    [a \in DOMAIN reg |->
        IF reg[a].status = "IN" /\ now - reg[a].first_seen > EXIT_TIMEOUT
        THEN [reg[a] EXCEPT !.status = "OUT", !.out_time = now]
        ELSE reg[a]]

\* cleanup_exits that drops the records it finds silent.
cleanup_exits_DropsSilent(reg, now) ==
    [a \in {b \in DOMAIN reg :
              ~(reg[b].status = "IN" /\ now - reg[b].last_seen > EXIT_TIMEOUT)}
        |-> reg[a]]

\* cleanup_exits without line 68 (out_time is not written).
cleanup_exits_NoStamp(reg, now) ==
    [a \in DOMAIN reg |->
        IF reg[a].status = "IN" /\ now - reg[a].last_seen > EXIT_TIMEOUT
        THEN [reg[a] EXCEPT !.status = "OUT"]
        ELSE reg[a]]

\* cleanup_exits(devices) with now = int(time.time()).
cleanup_exits(reg, now) ==
    [a \in DOMAIN reg |->
        IF reg[a].status = "IN" /\ now - reg[a].last_seen > EXIT_TIMEOUT
        THEN [reg[a] EXCEPT !.status = "OUT", !.out_time = now]
        ELSE reg[a]]

\* devices[selected_addr]["custom_name"] = new_name
set_custom_name(reg, addr, new_name) ==
    [reg EXCEPT ![addr].custom_name = new_name]

\* ------------------------------------------------------------------- Init
\* The storage found at the first run: none, unreadable, not JSON, or JSON
\* that is not an object.
InitFiles == {FileMissing, FileUnreadable, FileGarbage, FileJson(JsonOther)}

Init ==
    /\ clock = 0
    /\ file \in InitFiles
    /\ devices = EmptyRegistry
    /\ pc = "idle"
    /\ found = <<>>
    /\ auto_scan = FALSE
    /\ inLoop = FALSE
    /\ report = "none"
    /\ ticks = 0
    /\ ingests = [a \in Addrs |-> 0]
    /\ lastIngestAt = [a \in Addrs |-> NoTime]
    /\ touched = {}


\* ----------------------------------------------------------- script runs
\* The script with an st.* call inside the for loop of scan_once, where a
\* rerun may stop it as well.
CanRerun_InForLoop == pc \in {"idle", "render", "ingest"}

\* Streamlit runs the script from the top on every interaction: when no
\* script is running, or at the loop's scan_placeholder.dataframe call,
\* where a running auto-scan script is stopped and replaced.
CanRerun == pc \in {"idle", "render"}

\* Line 93: devices = load_devices().
Loaded == load_devices(file)

\* Lines 118-129 after the widgets: the single scan if the button was
\* pressed, else the auto-scan loop if the toggle is on, else the table.
Dispatch(scan_btn, toggle) ==
    /\ pc' = IF scan_btn \/ toggle THEN "scan" ELSE "idle"
    /\ inLoop' = (~scan_btn /\ toggle)

\* A run whose load_devices() returned a document that is not a dict ends
\* with an exception (devices.keys(), devices[addr] = ..., devices.items()
\* or devices.values() raises) before anything is changed.
RunRaises ==
    /\ pc' = "idle"
    /\ inLoop' = FALSE
    /\ report' = "exception"
    /\ UNCHANGED <<devices, file>>

\* Lines 108-116 without the save button pressed: the form, or the info
\* message when the registry is empty.
TaggingBlockShown(reg) == IF reg # EmptyRegistry THEN "none" ELSE "info"

\* A rerun with no button pressed (a text or selection edit, a refresh).
RunIdle ==
    /\ CanRerun
    /\ IF Loaded.type = "object"
       THEN /\ devices' = Loaded.members
            /\ report' = TaggingBlockShown(devices')
            /\ Dispatch(FALSE, auto_scan)
            /\ UNCHANGED file
       ELSE RunRaises
    /\ UNCHANGED <<clock, found, auto_scan, ticks, ingests, lastIngestAt, touched>>

\* Lines 101-104: the reset button.
ResetButton ==
    /\ CanRerun
    /\ devices' = EmptyRegistry
    /\ file' = save_devices(devices')
    /\ report' = TaggingBlockShown(devices')
    /\ Dispatch(FALSE, auto_scan)
    /\ ingests' = [a \in Addrs |-> 0]
    /\ lastIngestAt' = [a \in Addrs |-> NoTime]
    /\ UNCHANGED <<clock, found, auto_scan, ticks, touched>>

\* Line 109: the address is chosen in a selectbox over list(devices.keys()).
SaveNameOptions(reg) == DOMAIN reg

\* The else branch with save_devices called after the if/else.
TaggingNoDevices_Saves ==
    /\ devices' = Loaded.members
    /\ report' = "info"
    /\ file' = save_devices(devices')

\* Lines 115-116: the registry is empty; only st.info is shown.
TaggingNoDevices ==
    /\ devices' = Loaded.members
    /\ report' = "info"
    /\ UNCHANGED file

\* Lines 108-116: a run in which the user wants to name selected_addr.
\* With devices in the registry the address is picked among its keys and
\* the save button stores the name; with none the else branch runs.
ManualTagging(selected_addr, new_name) ==
    /\ CanRerun
    /\ IF Loaded.type = "object"
       THEN /\ IF Loaded.members # EmptyRegistry
               THEN /\ selected_addr \in SaveNameOptions(Loaded.members)
                    /\ devices' = set_custom_name(Loaded.members, selected_addr,
                                                  new_name)
                    /\ file' = save_devices(devices')
                    /\ report' = "name_saved"
               ELSE TaggingNoDevices
            /\ Dispatch(FALSE, auto_scan)
       ELSE RunRaises
    /\ UNCHANGED <<clock, found, auto_scan, ticks, ingests, lastIngestAt, touched>>

\* Lines 119-122: the single-scan button.
ScanButton ==
    /\ CanRerun
    /\ IF Loaded.type = "object"
       THEN /\ devices' = Loaded.members
            /\ report' = TaggingBlockShown(devices')
            /\ Dispatch(TRUE, auto_scan)
            /\ UNCHANGED file
       ELSE RunRaises
    /\ UNCHANGED <<clock, found, auto_scan, ticks, ingests, lastIngestAt, touched>>

\* Line 99: the auto-scan toggle is flipped.
ToggleAutoScan ==
    /\ CanRerun
    /\ auto_scan' = ~auto_scan
    /\ IF Loaded.type = "object"
       THEN /\ devices' = Loaded.members
            /\ report' = TaggingBlockShown(devices')
            /\ Dispatch(FALSE, auto_scan')
            /\ UNCHANGED file
       ELSE RunRaises
    /\ UNCHANGED <<clock, found, ticks, ingests, lastIngestAt, touched>>

\* ------------------------------------------------------------ scan cycle
\* Where the script goes when scan_once returns: back into the loop, into
\* the loop after a single scan when the toggle is on, or to the table.
CycleEnd ==
    /\ pc' = IF inLoop THEN "render" ELSE IF auto_scan THEN "scan" ELSE "idle"
    /\ inLoop' = (inLoop \/ auto_scan)

\* The lists of distinct devices a scan may report.
\* One device is reported with a name and a signal strength, the other
\* with an empty name and no rssi attribute.
Observations ==
    {[address |-> "AA:BB", name |-> "Phone1", rssi |-> -60],
     [address |-> "CC:DD", name |-> "", rssi |-> NoneRssi]}
Batches ==
    {<<>>} \cup {<<o>> : o \in Observations}
           \cup {b \in Observations \X Observations :
                    b[1].address = "AA:BB" /\ b[2].address = "CC:DD"}

\* The except branch without its return: the cycle goes on with whatever
\* the scanner holds.
ScanFail_NoReturn ==
    /\ pc = "scan"
    /\ pc' = "ingest"
    /\ found' = <<>>
    /\ UNCHANGED <<clock, file, devices, auto_scan, inLoop, report, ticks,
                   ingests, lastIngestAt, touched>>

\* Lines 73-79: start, sleep or stop raises; st.error and return.
ScanFail ==
    /\ pc = "scan"
    /\ CycleEnd
    /\ UNCHANGED <<clock, file, devices, found, auto_scan, report, ticks,
                   ingests, lastIngestAt, touched>>

\* Line 81: get_discovered_devices raises; the exception leaves scan_once
\* and asyncio.run and ends the script.
FetchFail ==
    /\ pc = "scan"
    /\ report' = "exception"
    /\ pc' = "idle"
    /\ inLoop' = FALSE
    /\ UNCHANGED <<clock, file, devices, found, auto_scan, ticks,
                   ingests, lastIngestAt, touched>>

\* Lines 73-81: the scan succeeds and reports a batch.
ScanOk(batch) ==
    /\ pc = "scan"
    /\ \A i \in 1..Len(batch) : ingests[batch[i].address] < MaxSeen
    /\ found' = batch
    /\ pc' = "ingest"
    /\ touched' = {}
    /\ UNCHANGED <<clock, file, devices, auto_scan, inLoop, report,
                   ticks, ingests, lastIngestAt>>

\* Lines 82-83: one iteration of the for loop; mark_seen reads the clock.
MarkSeenStep ==
    /\ pc = "ingest"
    /\ found # <<>>
    /\ LET dev == Head(found) IN
         /\ devices' = mark_seen(devices, dev.address, dev.name, dev.rssi, clock)
         /\ ingests' = [ingests EXCEPT ![dev.address] = @ + 1]
         /\ lastIngestAt' = [lastIngestAt EXCEPT ![dev.address] = clock]
         /\ touched' = touched \cup {dev.address}
    /\ found' = Tail(found)
    /\ UNCHANGED <<clock, file, pc, auto_scan, inLoop, report,
                   ticks>>

\* scan_once without line 85: the cycle goes from the for loop to
\* save_devices.
CleanupExitsStep_NoSweep ==
    /\ pc = "ingest"
    /\ found = <<>>
    /\ pc' = "save"
    /\ UNCHANGED <<clock, file, devices, found, auto_scan, inLoop, report,
                   ticks, ingests, lastIngestAt, touched>>

\* Line 85: cleanup_exits reads the clock.
CleanupExitsStep ==
    /\ pc = "ingest"
    /\ found = <<>>
    /\ devices' = cleanup_exits(devices, clock)
    /\ pc' = "save"
    /\ UNCHANGED <<clock, file, found, auto_scan, inLoop, report,
                   ticks, ingests, lastIngestAt, touched>>

\* Line 86 and the return to the caller.
SaveDevicesStep ==
    /\ pc = "save"
    /\ file' = save_devices(devices)
    /\ CycleEnd
    /\ touched' = {}
    /\ UNCHANGED <<clock, devices, found, auto_scan, report, ticks, ingests,
                   lastIngestAt>>

\* Lines 130-143: the table is drawn, the loop sleeps and starts a cycle.
LoopSleep ==
    /\ pc = "render"
    /\ pc' = "scan"
    /\ UNCHANGED <<clock, file, devices, found, auto_scan, inLoop,
                   report, ticks, ingests, lastIngestAt, touched>>

\* int(time.time()) moves forward.  The clock is read only by mark_seen
\* and cleanup_exits, so time that passes anywhere else is modelled as
\* passing during the scan (asyncio.sleep(SCAN_DURATION)) or between two
\* reads of the cycle.
Tick(d) ==
    /\ pc \in {"scan", "ingest"}
    /\ ticks < MaxTicks
    /\ clock' = clock + d
    /\ ticks' = ticks + 1
    /\ UNCHANGED <<file, devices, pc, found, auto_scan, inLoop,
                   report, ingests, lastIngestAt, touched>>

Next ==
    \/ RunIdle
    \/ ResetButton
    \/ \E a \in Addrs, n \in CustomNames : ManualTagging(a, n)
    \/ ScanButton
    \/ ToggleAutoScan
    \/ ScanFail
    \/ FetchFail
    \/ \E b \in Batches : ScanOk(b)
    \/ MarkSeenStep
    \/ CleanupExitsStep
    \/ SaveDevicesStep
    \/ LoopSleep
    \/ \E d \in Deltas : Tick(d)

Spec == Init /\ [][Next]_vars


\* ------------------------------------------------- crashes in save_devices
\* save_devices opens the file with mode "w", which empties it, and then
\* writes the JSON text.  A process that dies in save_devices leaves the
\* file as it was (before open), empty or holding a prefix of the text
\* (which is not JSON), or completely written.
SaveCrashFiles(old, reg) == {old, FileGarbage, save_devices(reg)}

\* The process dies in save_devices(reg); the script, its registry and the
\* session are gone, and the next run starts from the file.
SaveCrash(reg) ==
    /\ \E f \in SaveCrashFiles(file, reg) : file' = f
    /\ devices' = EmptyRegistry
    /\ pc' = "idle"
    /\ inLoop' = FALSE
    /\ auto_scan' = FALSE
    /\ found' = <<>>
    /\ touched' = {}
    /\ UNCHANGED <<clock, report, ticks, ingests, lastIngestAt>>

\* Line 86: a crash in the save_devices of a scan cycle.
CrashInSave ==
    /\ pc = "save"
    /\ SaveCrash(devices)

\* Line 113: a crash in the save_devices of a naming.
CrashInNameSave(selected_addr, new_name) ==
    /\ CanRerun
    /\ Loaded.type = "object"
    /\ selected_addr \in SaveNameOptions(Loaded.members)
    /\ SaveCrash(set_custom_name(Loaded.members, selected_addr, new_name))

\* Line 103: a crash in the save_devices of the reset button.
CrashInResetSave ==
    /\ CanRerun
    /\ SaveCrash(EmptyRegistry)

NextCrash ==
    \/ Next
    \/ CrashInSave
    \/ \E a \in Addrs, n \in CustomNames : CrashInNameSave(a, n)
    \/ CrashInResetSave

SpecCrash == Init /\ [][NextCrash]_vars

\* ------------------------------------------------------- a second session
\* Streamlit runs the script once per browser session, each run in its own
\* thread with its own devices dict, all on the same devices.json.  A run
\* of another session that names an address (lines 93-114: load, set
\* custom_name, save) while this session's script is inside a scan cycle.
OtherSessionTagging(selected_addr, new_name) ==
    /\ pc \in {"scan", "ingest", "save"}
    /\ Loaded.type = "object"
    /\ selected_addr \in SaveNameOptions(Loaded.members)
    /\ file' = save_devices(set_custom_name(Loaded.members, selected_addr,
                                            new_name))
    /\ UNCHANGED <<clock, devices, pc, found, auto_scan, inLoop, report,
                   ticks, ingests, lastIngestAt, touched>>

NextSessions ==
    \/ Next
    \/ \E a \in Addrs, n \in CustomNames : OtherSessionTagging(a, n)

SpecSessions == Init /\ [][NextSessions]_vars


\* ------------------------------------------------------------- properties
Silence(reg, a, now) == now - reg[a].last_seen
Kept(a) == a \in DOMAIN devices /\ a \in DOMAIN devices'
IngestOf(a) == MarkSeenStep /\ Head(found).address = a

\* C1: a mark_seen of an address that is not in the registry adds exactly
\* one record, keyed by that address, with seen_count 1, status IN,
\* first_seen = last_seen = the time read, an empty custom_name, and leaves
\* every other record as it was.
C1_UnseenAddressCreatesOneRecord ==
    [][\A a \in Addrs :
        (IngestOf(a) /\ a \notin DOMAIN devices) =>
            /\ DOMAIN devices' = DOMAIN devices \cup {a}
            /\ devices'[a].address = a
            /\ devices'[a].seen_count = 1
            /\ devices'[a].status = "IN"
            /\ devices'[a].first_seen = clock
            /\ devices'[a].last_seen = clock
            /\ devices'[a].custom_name = ""
            /\ \A b \in DOMAIN devices : devices'[b] = devices[b]]_vars

C1_Witness ==
    /\ pc = "ingest"
    /\ \E a, b \in DOMAIN devices :
        /\ a # b
        /\ devices[a].seen_count = 1
        /\ devices[a].first_seen = clock
        /\ devices[a].last_seen = clock
        /\ devices[a].status = "IN"
        /\ devices[b].last_seen < clock

\* C2: an address passed to mark_seen n >= 1 times since the registry was
\* last emptied has a record with seen_count = n and last_seen = the time
\* read by the last of those calls, whatever sweeps and namings happened
\* in between.
C2_CountAndLastSeenFollowIngestions ==
    \A a \in Addrs :
        ingests[a] >= 1 =>
            /\ a \in DOMAIN devices
            /\ devices[a].seen_count = ingests[a]
            /\ devices[a].last_seen = lastIngestAt[a]

C2_Witness ==
    \E a \in DOMAIN devices :
        /\ ingests[a] = 2
        /\ devices[a].seen_count = 2
        /\ devices[a].out_time # NoTime
        /\ devices[a].custom_name = "Key"
        /\ devices[a].last_seen > devices[a].first_seen

\* C3: cleanup_exits compares strictly: a record that is IN and silent for
\* more than EXIT_TIMEOUT seconds (EXIT_TIMEOUT + 1 included) is OUT after
\* it, a record that is IN and silent for EXIT_TIMEOUT seconds or less is
\* still IN.
C3_SweepThresholdIsStrict ==
    [][CleanupExitsStep =>
        \A a \in DOMAIN devices :
            devices[a].status = "IN" =>
                /\ Silence(devices, a, clock) >= EXIT_TIMEOUT + 1
                        => devices'[a].status = "OUT"
                /\ Silence(devices, a, clock) <= EXIT_TIMEOUT
                        => devices'[a].status = "IN"]_vars

C3_Witness ==
    /\ pc = "save"
    /\ \E a, b \in DOMAIN devices :
        /\ devices[a].status = "OUT"
        /\ devices[a].out_time = clock
        /\ Silence(devices, a, clock) = EXIT_TIMEOUT + 1
        /\ devices[b].status = "IN"
        /\ Silence(devices, b, clock) = EXIT_TIMEOUT

\* C4: cleanup_exits is idempotent: applied again at the same time it
\* returns the registry it produced, and at that or any later time it
\* leaves a record that is already OUT (its out_time included) exactly as
\* it was.  Checked on the sweeps the cycles perform and, for every
\* reachable registry, on a sweep at the current or a later clock value.
SweepTimes ==
    {clock} \cup {clock + d : d \in Deltas}
            \cup {clock + d + e : d \in Deltas, e \in Deltas}

C4_SweepIsIdempotent ==
    /\ [][CleanupExitsStep =>
            /\ cleanup_exits(devices', clock) = devices'
            /\ \A a \in DOMAIN devices :
                  devices[a].status = "OUT" => devices'[a] = devices[a]]_vars
    /\ [](\A t \in SweepTimes :
            /\ cleanup_exits(cleanup_exits(devices, t), t) = cleanup_exits(devices, t)
            /\ \A a \in DOMAIN devices :
                  devices[a].status = "OUT" => cleanup_exits(devices, t)[a] = devices[a])

\* A second cycle swept at the second at which the first one put a OUT:
\* b was passed to mark_seen in both, a is OUT since the first.
C4_Witness ==
    /\ pc = "save"
    /\ \E a, b \in DOMAIN devices :
        /\ a # b
        /\ devices[a].status = "OUT"
        /\ devices[a].out_time = clock
        /\ devices[b].first_seen = clock
        /\ devices[b].seen_count = 2

\* C5: a record goes from OUT to IN only in a mark_seen of its address;
\* cleanup_exits never does it, naming never changes the status, and a
\* mark_seen of a known address always leaves it IN with seen_count
\* incremented.
C5_OnlyIngestReturnsToIn ==
    [][\A a \in Addrs : Kept(a) =>
        /\ (devices[a].status = "OUT" /\ devices'[a].status = "IN") => IngestOf(a)
        /\ (\E b \in Addrs, n \in CustomNames : ManualTagging(b, n))
                => devices'[a].status = devices[a].status
        /\ IngestOf(a) =>
                /\ devices'[a].status = "IN"
                /\ devices'[a].seen_count = devices[a].seen_count + 1]_vars

C5_Witness ==
    \E a \in DOMAIN devices :
        /\ devices[a].status = "IN"
        /\ devices[a].seen_count = 2
        /\ devices[a].first_seen = 0
        /\ devices[a].out_time = EXIT_TIMEOUT + 1
        /\ devices[a].last_seen >= devices[a].out_time

\* C6: right after cleanup_exits, and in the snapshot the cycle then saves,
\* a record is IN exactly when the time read by that cleanup_exits minus
\* its last_seen is at most EXIT_TIMEOUT, and OUT otherwise.
C6_StatusMatchesSilenceAfterSweep ==
    [][/\ CleanupExitsStep =>
            \A a \in DOMAIN devices' :
                /\ devices'[a].status \in {"IN", "OUT"}
                /\ devices'[a].status = "IN"
                        <=> Silence(devices', a, clock) <= EXIT_TIMEOUT
       /\ SaveDevicesStep =>
            /\ file'.kind = "json" /\ file'.json.type = "object"
            /\ \A a \in DOMAIN file'.json.members :
                file'.json.members[a].status = "IN"
                    <=> Silence(file'.json.members, a, clock) <= EXIT_TIMEOUT]_vars

C6_Witness ==
    /\ pc = "idle"
    /\ file = save_devices(devices)
    /\ \E a, b \in DOMAIN devices :
        /\ devices[a].status = "OUT"
        /\ devices[a].seen_count = 2
        /\ devices[b].status = "IN"
        /\ devices[b].seen_count = 2
        /\ devices[b].out_time # NoTime

\* C7: tag, address and first_seen of a record never change while the
\* record exists, and its custom_name changes only when the user names
\* that address.
C7_IdentityAndLabelAreStable ==
    [][\A a \in Addrs : Kept(a) =>
        /\ devices'[a].tag = devices[a].tag
        /\ devices'[a].address = devices[a].address
        /\ devices'[a].first_seen = devices[a].first_seen
        /\ devices'[a].custom_name # devices[a].custom_name
                => \E n \in CustomNames : ManualTagging(a, n)]_vars

C7_Witness ==
    \E a \in DOMAIN devices :
        /\ devices[a].custom_name = "Key"
        /\ devices[a].tag = make_tag(a)
        /\ devices[a].status = "IN"
        /\ devices[a].out_time # NoTime
        /\ devices[a].first_seen < devices[a].out_time
        /\ pc = "save"

C9_FailedScanIsNoOp ==
    [][(ScanFail \/ FetchFail) =>
        /\ devices' = devices
        /\ file' = file
        /\ found' = found
        /\ pc' \notin {"ingest", "save"}]_vars

C9_Witness ==
    /\ report = "exception"
    /\ pc = "idle"
    /\ file = save_devices(devices)
    /\ \E a \in DOMAIN devices :
        /\ devices[a].status = "IN"
        /\ Silence(devices, a, clock) > EXIT_TIMEOUT

\* C10: load_devices returns an empty registry whenever the storage is
\* missing, cannot be read, or does not hold a registry.
HoldsRegistry(f) == f.kind = "json" /\ f.json.type = "object"

C10_LoadReturnsEmptyRegistry ==
    ~HoldsRegistry(file) => load_devices(file) = JsonObject(EmptyRegistry)

\* C11: save_devices is atomic with respect to crashes: after a crash at
\* any point of a save_devices, load_devices returns what it returned
\* before that save_devices or the registry that was being saved.
C11_SaveIsCrashAtomic ==
    [][/\ CrashInSave =>
            load_devices(file') \in {load_devices(file), JsonObject(devices)}
       /\ \A a \in Addrs, n \in CustomNames :
            CrashInNameSave(a, n) =>
                load_devices(file') \in
                    {load_devices(file),
                     JsonObject(set_custom_name(Loaded.members, a, n))}
       /\ CrashInResetSave =>
            load_devices(file') \in
                {load_devices(file), JsonObject(EmptyRegistry)}]_vars

\* C17: with a scan loop and a naming running concurrently, the mutation
\* that commits last does not erase what an earlier committed mutation did
\* to other records or fields: the save_devices of a scan cycle, which
\* changes no custom_name, leaves every custom_name held by the file as it
\* is.
C17_LastCommitKeepsEarlierMutations ==
    [][SaveDevicesStep =>
        \A a \in DOMAIN load_devices(file).members :
            /\ a \in DOMAIN load_devices(file').members
            /\ load_devices(file').members[a].custom_name =
                  load_devices(file).members[a].custom_name]_vars

\* C12: while a record exists its last_seen never decreases, whatever
\* mark_seen, cleanup_exits and naming steps are taken (the clock never
\* goes back), and first_seen <= last_seen holds for every record of every
\* reachable registry.
C12_LastSeenIsMonotonic ==
    /\ [](\A a \in DOMAIN devices :
            devices[a].first_seen <= devices[a].last_seen)
    /\ [][/\ clock' >= clock
          /\ \A a \in Addrs :
               Kept(a) => devices'[a].last_seen >= devices[a].last_seen]_vars

C12_Witness ==
    /\ pc = "ingest"
    /\ found = <<>>
    /\ \E a, b \in DOMAIN devices :
        /\ a # b
        /\ devices[a].seen_count = 2
        /\ devices[a].first_seen < devices[a].last_seen
        /\ devices[a].last_seen < clock
        /\ devices[b].first_seen = clock
        /\ devices[b].last_seen = clock

\* C13: a cycle whose scan succeeded passes every reported device to
\* mark_seen, then runs cleanup_exits, then save_devices, and writes the
\* file nowhere else; the file it writes holds the registry as
\* cleanup_exits left it, every record touched by the cycle included.
C13_CycleIngestsSweepsThenSaves ==
    [][/\ (pc # "save" /\ pc' = "save") => (CleanupExitsStep /\ found = <<>>)
       /\ (pc \in {"scan", "ingest"}) => file' = file
       /\ (pc = "save" /\ file' # file) => SaveDevicesStep
       /\ SaveDevicesStep =>
            /\ load_devices(file') = JsonObject(devices)
            /\ devices' = devices
            /\ cleanup_exits(devices, clock) = devices
            /\ \A a \in touched :
                 a \in DOMAIN devices /\ devices[a].last_seen = lastIngestAt[a]]_vars

C13_Witness ==
    /\ pc = "render"
    /\ file = save_devices(devices)
    /\ \E a, b \in DOMAIN devices :
        /\ devices[a].status = "OUT"
        /\ devices[a].out_time = clock
        /\ devices[b].status = "IN"
        /\ lastIngestAt[b] = clock
        /\ devices[b].last_seen = clock

\* C18: only the reset button removes records: every other step (a run of
\* the script, a naming, a mark_seen, a cleanup_exits, a failed or a
\* successful cycle) leaves every address of the registry, and of the
\* stored snapshot, in place; the reset button leaves the registry and the
\* stored snapshot with no record.
C18_OnlyResetRemovesRecords ==
    [][/\ ~ResetButton =>
            /\ DOMAIN devices \subseteq DOMAIN devices'
            /\ DOMAIN load_devices(file).members
                  \subseteq DOMAIN load_devices(file').members
       /\ ResetButton =>
            /\ devices' = EmptyRegistry
            /\ load_devices(file') = JsonObject(EmptyRegistry)
            /\ HoldsRegistry(file')]_vars

C18_Witness ==
    /\ pc = "render"
    /\ file = save_devices(devices)
    /\ DOMAIN devices = Addrs
    /\ \E a \in DOMAIN devices :
        /\ devices[a].status = "OUT"
        /\ devices[a].custom_name = "Key"
        /\ devices[a].seen_count = 1

\* C19: every record whose status is OUT has an out_time, and that
\* out_time is more than EXIT_TIMEOUT seconds after its last_seen.
C19_OutRecordsCarryExitTime ==
    \A a \in DOMAIN devices :
        devices[a].status = "OUT" =>
            /\ devices[a].out_time # NoTime
            /\ devices[a].out_time - devices[a].last_seen > EXIT_TIMEOUT

C19_Witness ==
    \E a \in DOMAIN devices :
        /\ devices[a].status = "OUT"
        /\ devices[a].out_time - devices[a].last_seen = 2 * EXIT_TIMEOUT
        /\ devices[a].out_time = clock

\* C14: the records touched by one batch of mark_seen calls all carry the
\* same last_seen, and those the batch created the same first_seen, even
\* when the clock advances while the batch is processed.
C14_BatchSharesOneTimestamp ==
    \A a, b \in touched :
        /\ devices[a].last_seen = devices[b].last_seen
        /\ (devices[a].seen_count = 1 /\ devices[b].seen_count = 1) =>
              devices[a].first_seen = devices[b].first_seen

\* C15: in the auto-scan loop a cycle whose scan provider fails (start,
\* sleep, stop, or get_discovered_devices) leaves the script inside the
\* loop, about to draw the table and start the next cycle.
C15_ScanFailureKeepsLoopRunning ==
    [][(inLoop /\ (ScanFail \/ FetchFail)) =>
            (inLoop' /\ pc' = "render")]_vars

\* C16: the auto-scan loop is stopped only between cycles.  From the first
\* mark_seen to save_devices a cycle is left only through save_devices,
\* after every reported device was ingested and cleanup_exits has run; a
\* rerun replaces a looping script only at the table, where the file holds
\* the registry of the loop in full; and after the toggle was switched off
\* there the script is idle, outside the loop, and starts no cycle until
\* the user acts again.
Rerun ==
    \/ RunIdle
    \/ ResetButton
    \/ \E a \in Addrs, n \in CustomNames : ManualTagging(a, n)
    \/ ScanButton
    \/ ToggleAutoScan

C20_IngestedRecordsAreSavedIn ==
    [][/\ CleanupExitsStep =>
            \A a \in touched : devices'[a].status = "IN"
       /\ SaveDevicesStep =>
            \A a \in touched : load_devices(file').members[a].status = "IN"]_vars

\* C20 (amended): a record that the cycle passed to mark_seen is IN after
\* the cycle's cleanup_exits, and in the snapshot the cycle saves, when at
\* most EXIT_TIMEOUT seconds passed between the clock read of its
\* mark_seen and the clock read of cleanup_exits; when more passed it is
\* OUT in both.
C20_IngestedRecordsAreSavedInWithinTimeout ==
    [][/\ CleanupExitsStep =>
            \A a \in touched :
                devices'[a].status =
                    IF clock - lastIngestAt[a] <= EXIT_TIMEOUT THEN "IN" ELSE "OUT"
       /\ SaveDevicesStep =>
            \A a \in touched :
                load_devices(file').members[a].status =
                    IF clock - lastIngestAt[a] <= EXIT_TIMEOUT THEN "IN" ELSE "OUT"]_vars

C20_Witness ==
    /\ pc = "save"
    /\ touched = Addrs
    /\ \A a \in touched : devices[a].status = "IN"
    /\ \E a, b \in touched :
        /\ clock - lastIngestAt[a] = EXIT_TIMEOUT
        /\ clock - lastIngestAt[b] = 0

=============================================================================
